---- MODULE Spec2Model ----
(***************************************************************************)
(* Model of the buffer commitment engine (zero_hash, Packed, hash_buf,     *)
(* hash_node, Buffer::hash_aux, Buffer::hash) and of the confirm thread    *)
(* (ChainObserver.startConfirmThread), both found in                       *)
(* packages/arb-validator/rollup/confirmThread.go.                         *)
(*                                                                         *)
(* 256-bit digests are modelled as terms of a free algebra, so that the    *)
(* hash primitive is collision-free: two digests are equal only when they  *)
(* were built from the same inputs in the same way.                        *)
(***************************************************************************)
EXTENDS Integers, Sequences, FiniteSets, TLC

(***************************************************************************)
(* Program constants.                                                      *)
(***************************************************************************)
\* size in bytes of the block hashed by keccak256 (sz == 32 base cases)
WORD_SIZE == 32
\* size in bytes of a level-0 leaf (zero_packed(1024), hash_buf(.., 0, 1024))
LEAF_SIZE == 1024
\* number of children of a node (hash_node(.., 0, 128, ..))
NODE_SIZE == 128
\* width of the C++ int that carries sizes
INT_BITS == 32

(***************************************************************************)
(* Bounds of the model.                                                    *)
(***************************************************************************)
\* highest Buffer level drawn as an input
MaxLevel == 3
\* most non-zero bytes written into one materialized leaf
MaxNonZero == 2
\* most materialized children placed in one node
MaxKids == 2
\* frames the call stack holds before it overflows
MaxDepth == 40
\* most ticks the ticker delivers
MaxTicks == 2
\* most listeners registered on the chain
MaxListeners == 2

\* the absent pointer (an empty shared_ptr)
NULL == <<>>

(***************************************************************************)
(* The hash primitives.  keccak256 is injective on 32-byte blocks, and the *)
(* two-argument hash is injective on pairs; the digest of a pair of equal  *)
(* digests is written <<"dup", a>>, a shorter name for the same term       *)
(* <<"hash", a, a>>, so the encoding stays injective.                      *)
(***************************************************************************)
keccak256(bytes) == <<"keccak", bytes>>

hash2(a, b) == IF a = b THEN <<"dup", a>> ELSE <<"hash", a, b>>

\* hash(0): the digest of the 256-bit integer 0, i.e. of 32 zero bytes
hash1(v) == keccak256([i \in 1..WORD_SIZE |-> IF i = WORD_SIZE THEN v ELSE 0])

\* C++ integer division truncates toward zero
CDiv(a, b) == IF a >= 0 \/ a % b = 0 THEN a \div b ELSE (a \div b) + 1

\* the least and the greatest 32-bit int, written without leaving the range
INT_MIN == (-(2 ^ (INT_BITS - 2))) * 2
INT_MAX == (2 ^ (INT_BITS - 2) - 1) * 2 + 1

\* a + b in 32-bit two's complement arithmetic
AddWrap(a, b) ==
    IF a > 0 /\ b > 0 /\ a > INT_MAX - b
    THEN (a - 2 ^ (INT_BITS - 2) - 2 ^ (INT_BITS - 2)) + (b - 2 ^ (INT_BITS - 2) - 2 ^ (INT_BITS - 2))
    ELSE IF a < 0 /\ b < 0 /\ a < INT_MIN - b
    THEN (a + 2 ^ (INT_BITS - 2) + 2 ^ (INT_BITS - 2)) + (b + 2 ^ (INT_BITS - 2) + 2 ^ (INT_BITS - 2))
    ELSE a + b

\* a * n in 32-bit two's complement arithmetic, n >= 0
RECURSIVE MulWrap(_, _)
MulWrap(a, n) ==
    IF n = 0 THEN 0
    ELSE LET h == MulWrap(a, n \div 2)
             d == AddWrap(h, h)
         IN IF n % 2 = 0 THEN d ELSE AddWrap(d, a)

\* extent(level) = 1024 * 128^level, as an int
RECURSIVE calc_len(_)
calc_len(level) ==
    IF level = 0 THEN LEAF_SIZE ELSE MulWrap(calc_len(level - 1), NODE_SIZE)

(***************************************************************************)
(* Packed values and the zero-hash oracle.                                 *)
(***************************************************************************)
RECURSIVE zero_hash(_)
zero_hash(sz) ==
    IF sz = WORD_SIZE THEN hash1(0)
    ELSE LET h1 == zero_hash(CDiv(sz, 2)) IN hash2(h1, h1)

normal(hash, sz) == [hash |-> hash, size |-> sz, packed |-> 0]

\* a variant of pack that forgets to count the doubling
pack_no_count(packed) == [hash |-> packed.hash, size |-> packed.size, packed |-> packed.packed]

pack(packed) == [hash |-> packed.hash, size |-> packed.size, packed |-> packed.packed + 1]

RECURSIVE unpack_loop(_, _, _, _)
unpack_loop(res, sz, i, n) ==
    IF i < n THEN unpack_loop(hash2(res, zero_hash(sz)), MulWrap(sz, 2), i + 1, n) ELSE res

\* a variant of unpack that forgets sz = sz*2
RECURSIVE unpack_loop_same_sz(_, _, _, _)
unpack_loop_same_sz(res, sz, i, n) ==
    IF i < n THEN unpack_loop_same_sz(hash2(res, zero_hash(sz)), sz, i + 1, n) ELSE res

unpack_same_sz(packed) == unpack_loop_same_sz(packed.hash, packed.size, 0, packed.packed)

unpack(packed) == unpack_loop(packed.hash, packed.size, 0, packed.packed)

\* a variant of is_zero_hash that compares the expanded digest
is_zero_hash_unpacked(packed) == unpack(packed) = hash1(0)

is_zero_hash(packed) == packed.hash = hash1(0)

RECURSIVE zero_packed(_)
zero_packed(sz) ==
    IF sz = WORD_SIZE THEN normal(zero_hash(WORD_SIZE), WORD_SIZE)
    ELSE pack(zero_packed(CDiv(sz, 2)))

(***************************************************************************)
(* Leaf and node hashers.  buf is 0-indexed in the program: byte `offset`  *)
(* is element offset + 1 of the sequence.                                  *)
(***************************************************************************)
\* a variant of hash_buf without the zero test: it always combines
RECURSIVE hash_buf_always_combine(_, _, _)
hash_buf_always_combine(buf, offset, sz) ==
    IF sz = WORD_SIZE
    THEN normal(keccak256(SubSeq(buf, offset + 1, offset + WORD_SIZE)), WORD_SIZE)
    ELSE LET h1 == hash_buf_always_combine(buf, offset, CDiv(sz, 2))
             h2 == hash_buf_always_combine(buf, offset + CDiv(sz, 2), CDiv(sz, 2))
         IN normal(hash2(unpack(h1), unpack(h2)), sz)

\* a variant of hash_buf that applies the zero test to h1 instead of h2
RECURSIVE hash_buf_tests_h1(_, _, _)
hash_buf_tests_h1(buf, offset, sz) ==
    IF sz = WORD_SIZE
    THEN normal(keccak256(SubSeq(buf, offset + 1, offset + WORD_SIZE)), WORD_SIZE)
    ELSE LET h1 == hash_buf_tests_h1(buf, offset, CDiv(sz, 2))
             h2 == hash_buf_tests_h1(buf, offset + CDiv(sz, 2), CDiv(sz, 2))
         IN IF is_zero_hash(h1) THEN pack(h1)
            ELSE normal(hash2(unpack(h1), unpack(h2)), sz)

RECURSIVE hash_buf(_, _, _)
hash_buf(buf, offset, sz) ==
    IF sz = WORD_SIZE
    THEN normal(keccak256(SubSeq(buf, offset + 1, offset + WORD_SIZE)), WORD_SIZE)
    ELSE LET h1 == hash_buf(buf, offset, CDiv(sz, 2))
             h2 == hash_buf(buf, offset + CDiv(sz, 2), CDiv(sz, 2))
         IN IF is_zero_hash(h2) THEN pack(h1)
            ELSE normal(hash2(unpack(h1), unpack(h2)), sz)

RECURSIVE hash_node(_, _, _, _)
RECURSIVE hash_aux(_)

hash_node(buf, offset, len, sz) ==
    IF len = 1
    THEN hash_aux(buf[1])
    ELSE LET h1 == hash_node(buf, offset, CDiv(len, 2), CDiv(sz, 2))
             h2 == hash_node(buf, offset + CDiv(len, 2), CDiv(len, 2), CDiv(sz, 2))
         IN IF is_zero_hash(h2) THEN pack(h1)
            ELSE normal(hash2(unpack(h1), unpack(h2)), sz)

hash_aux(b) ==
    IF b.level = 0
    THEN IF b.leaf = NULL THEN zero_packed(LEAF_SIZE)
         ELSE hash_buf(b.leaf, 0, LEAF_SIZE)
    ELSE IF b.leaf = NULL THEN zero_packed(calc_len(b.level))
         ELSE hash_node(b.node, 0, NODE_SIZE, calc_len(b.level))

\* Buffer::hash
hash(b) == hash_aux(b).hash

(***************************************************************************)
(* Whether a call returns.  zero_packed(sz) halves sz until it is 32; from *)
(* a size that is not 32 * 2^k the halving passes below 32 and stays at 0, *)
(* and the recursion never reaches its base case.                          *)
(***************************************************************************)
RECURSIVE ReachesBase(_)
ReachesBase(sz) ==
    IF sz = WORD_SIZE THEN TRUE
    ELSE IF sz < WORD_SIZE THEN FALSE
    ELSE ReachesBase(CDiv(sz, 2))

RECURSIVE HashAuxReturns(_)
HashAuxReturns(b) ==
    IF b.level = 0 THEN TRUE
    ELSE IF b.leaf = NULL THEN ReachesBase(calc_len(b.level))
    ELSE HashAuxReturns(b.node[1])

HashNodeReturns(node) == HashAuxReturns(node[1])

(***************************************************************************)
(* The inputs: well-formed Buffers.  A level-0 Buffer is Empty or holds a  *)
(* 1024-byte leaf; a Buffer of level > 0 is Empty or holds 128 children of *)
(* the level below.                                                        *)
(***************************************************************************)
Empty(L) == [level |-> L, leaf |-> NULL, node |-> NULL]

Leaf(data) == [level |-> 0, leaf |-> data, node |-> NULL]

Node(L, kids) == [level |-> L, leaf |-> NULL, node |-> kids]

\* byte offsets of a leaf that the inputs may set to a non-zero value
ProbeOffsets == {0, 31, 32, 511, 512, 1023}

\* the non-zero value written at a byte offset
NonZeroByte(o) == IF o % 2 = 0 THEN 1 ELSE 255

\* child indexes of a node that the inputs may materialize
ProbeIdx == {0, 64, 127}

LeafBytes(S) == [i \in 1..LEAF_SIZE |-> IF (i - 1) \in S THEN NonZeroByte(i - 1) ELSE 0]

LeafDatas == {LeafBytes(S) : S \in {T \in SUBSET ProbeOffsets : Cardinality(T) <= MaxNonZero}}

\* the leaf of the end-to-end scenario: all zero except byte 0 = 0x01
OneByteLeaf == LeafBytes({0})

\* partial maps from ProbeIdx to choices, at most MaxKids entries
KidMaps(choices) ==
    UNION {[D -> choices] : D \in {T \in SUBSET ProbeIdx : Cardinality(T) <= MaxKids}}

Kids(L, m) ==
    [i \in 1..NODE_SIZE |-> IF (i - 1) \in DOMAIN m THEN m[i - 1] ELSE Empty(L - 1)]

\* a node of level L whose first leaf, down the first children, is OneByteLeaf
RECURSIVE Dirty(_)
Dirty(L) ==
    IF L = 0 THEN Leaf(OneByteLeaf) ELSE Node(L, Kids(L, [i \in {0} |-> Dirty(L - 1)]))

\* the children that the inputs place in a node of level L
KidChoices(L) ==
    IF L = 1
    THEN {Leaf(LeafBytes({})), Leaf(OneByteLeaf), Leaf(LeafBytes({1023}))}
    ELSE {Node(L - 1, Kids(L - 1, <<>>)), Dirty(L - 1)}

BuffersAt(L) ==
    IF L = 0
    THEN {Empty(0)} \cup {Leaf(d) : d \in LeafDatas}
    ELSE {Empty(L)} \cup {Node(L, Kids(L, m)) : m \in KidMaps(KidChoices(L))}

Buffers == UNION {BuffersAt(L) : L \in 0..MaxLevel}

\* sizes 32, 64, ..., top
RECURSIVE Halvings(_)
Halvings(top) == IF top <= WORD_SIZE THEN {top} ELSE {top} \cup Halvings(CDiv(top, 2))

\* lengths 1, 2, ..., 128
RECURSIVE Lens(_)
Lens(top) == IF top <= 1 THEN {top} ELSE {top} \cup Lens(CDiv(top, 2))

\* the size passed along with len children by the recursion from (128, top)
RECURSIVE SzAt(_, _, _)
SzAt(top, n, len) == IF n = len THEN top ELSE SzAt(CDiv(top, 2), CDiv(n, 2), len)

(***************************************************************************)
(* State: the Buffer read by the call, the function called, its arguments  *)
(* <<offset, len, sz>> and the value it returned.                          *)
(***************************************************************************)
VARIABLES buf, op, args, out

hashVars == <<buf, op, args, out>>

(***************************************************************************)
(* State of one descent through the calls made by Buffer::hash: the call   *)
(* on top of the stack, the number of frames on the stack, and the         *)
(* function the descent started from.                                      *)
(***************************************************************************)
VARIABLES top, depth, entry

termVars == <<top, depth, entry>>

(***************************************************************************)
(* State of the confirm thread and of the chain it reads: the goroutine's  *)
(* position, the chain's RWMutex (readers, writer), chain.atHead, the      *)
(* context, the ticks delivered, the listeners, the goroutine's locals     *)
(* (observed, confValid, confInvalid, idx) and the counts of RLock and     *)
(* RUnlock calls it has made.                                              *)
(***************************************************************************)
VARIABLES pc, readers, writer, atHead, ctxDone, ticks, listeners,
          observed, confValid, confInvalid, idx, nRLock, nRUnlock

threadVars == <<pc, readers, writer, atHead, ctxDone, ticks, listeners,
                observed, confValid, confInvalid, idx, nRLock, nRUnlock>>

vars == <<hashVars, termVars, threadVars>>

\* the value of the variables a specification does not use
HashIdle == buf = NULL /\ op = "idle" /\ args = <<0, 0, 0>> /\ out = NULL

TermIdle == top = NULL /\ depth = 0 /\ entry = "idle"

ThreadIdle ==
    /\ pc = "idle" /\ readers = 0 /\ writer = FALSE /\ atHead = FALSE
    /\ ctxDone = FALSE /\ ticks = 0 /\ listeners = 0 /\ observed = FALSE
    /\ confValid = FALSE /\ confInvalid = FALSE /\ idx = 0
    /\ nRLock = 0 /\ nRUnlock = 0

Init ==
    /\ buf \in Buffers
    /\ op = "init"
    /\ args = <<0, 0, 0>>
    /\ out = NULL
    /\ TermIdle
    /\ ThreadIdle

\* uint256_t Buffer::hash() const
Hash ==
    /\ op = "init"
    /\ HashAuxReturns(buf)
    /\ op' = "hash"
    /\ out' = hash(buf)
    /\ UNCHANGED <<buf, args, termVars, threadVars>>

\* Packed Buffer::hash_aux() const
HashAux ==
    /\ op = "init"
    /\ HashAuxReturns(buf)
    /\ op' = "hash_aux"
    /\ out' = hash_aux(buf)
    /\ UNCHANGED <<buf, args, termVars, threadVars>>

\* Packed hash_buf(uint8_t *buf, int offset, int sz), on the leaf's bytes
HashBuf ==
    /\ op = "init"
    /\ buf.level = 0
    /\ buf.leaf # NULL
    /\ \E sz \in Halvings(LEAF_SIZE) :
         \E offset \in {o \in 0..(LEAF_SIZE - sz) : o % sz = 0} :
            /\ args' = <<offset, 0, sz>>
            /\ out' = hash_buf(buf.leaf, offset, sz)
    /\ op' = "hash_buf"
    /\ UNCHANGED <<buf, termVars, threadVars>>

\* Packed hash_node(Buffer *buf, int offset, int len, int sz), on the node's children
HashNode ==
    /\ op = "init"
    /\ buf.level > 0
    /\ buf.node # NULL
    /\ HashNodeReturns(buf.node)
    /\ \E len \in Lens(NODE_SIZE) :
         \E offset \in {0, NODE_SIZE - len} :
            LET sz == SzAt(calc_len(buf.level), NODE_SIZE, len)
            IN /\ args' = <<offset, len, sz>>
               /\ out' = hash_node(buf.node, offset, len, sz)
    /\ op' = "hash_node"
    /\ UNCHANGED <<buf, termVars, threadVars>>

\* Packed zero_packed(int sz), on the extent of the Buffer's level and its halves
ZeroPacked ==
    /\ op = "init"
    /\ ReachesBase(calc_len(buf.level))
    /\ \E sz \in Halvings(calc_len(buf.level)) :
          /\ args' = <<0, 0, sz>>
          /\ out' = zero_packed(sz)
    /\ op' = "zero_packed"
    /\ UNCHANGED <<buf, termVars, threadVars>>

Next == Hash \/ HashAux \/ HashBuf \/ HashNode \/ ZeroPacked

Spec == Init /\ [][Next]_vars

(***************************************************************************)
(* The calls of Buffer::hash, one frame at a time.  A behaviour follows    *)
(* one path down the call tree: each step is the call the function on top  *)
(* of the stack makes next, or its return at a base case.  A call made     *)
(* with MaxDepth frames on the stack overflows the stack.                  *)
(***************************************************************************)
Frame(fn, level, mat, offset, len, sz) ==
    [fn |-> fn, level |-> level, mat |-> mat, offset |-> offset, len |-> len, sz |-> sz]

InitTerm ==
    /\ HashIdle
    /\ ThreadIdle
    /\ depth = 1
    /\ \E e \in {"hash", "hash_node"} : \E level \in 0..MaxLevel : \E mat \in BOOLEAN :
          /\ entry = e
          /\ IF e = "hash"
             THEN top = Frame("hash", level, mat, 0, 0, 0)
             ELSE /\ level > 0
                  /\ mat
                  /\ top = Frame("hash_node", level, mat, 0, NODE_SIZE, calc_len(level))

Call(frame) ==
    IF depth < MaxDepth
    THEN top' = frame /\ depth' = depth + 1
    ELSE top' = [top EXCEPT !.fn = "stack_overflow"] /\ depth' = depth

Return == top' = [top EXCEPT !.fn = "returned"] /\ depth' = depth

\* uint256_t Buffer::hash() const: calls hash_aux()
TBufferHash ==
    /\ top.fn = "hash"
    /\ Call([top EXCEPT !.fn = "hash_aux"])
    /\ UNCHANGED <<entry, hashVars, threadVars>>

\* Packed Buffer::hash_aux() const: the leaf pointer is set only in a
\* Materialized level-0 Buffer
THashAux ==
    /\ top.fn = "hash_aux"
    /\ LET leaf == top.level = 0 /\ top.mat
       IN IF top.level = 0
          THEN IF ~leaf
               THEN Call(Frame("zero_packed", top.level, top.mat, 0, 0, LEAF_SIZE))
               ELSE Call(Frame("hash_buf", top.level, top.mat, 0, 0, LEAF_SIZE))
          ELSE IF ~leaf
               THEN Call(Frame("zero_packed", top.level, top.mat, 0, 0, calc_len(top.level)))
               ELSE Call(Frame("hash_node", top.level, top.mat, 0, NODE_SIZE,
                               calc_len(top.level)))
    /\ UNCHANGED <<entry, hashVars, threadVars>>

\* Packed zero_packed(int sz)
TZeroPacked ==
    /\ top.fn = "zero_packed"
    /\ IF top.sz = WORD_SIZE
       THEN Call([top EXCEPT !.fn = "zero_hash", !.sz = WORD_SIZE])
       ELSE Call([top EXCEPT !.sz = CDiv(top.sz, 2)])
    /\ UNCHANGED <<entry, hashVars, threadVars>>

\* uint256_t zero_hash(int sz)
TZeroHash ==
    /\ top.fn = "zero_hash"
    /\ IF top.sz = WORD_SIZE
       THEN Return
       ELSE Call([top EXCEPT !.sz = CDiv(top.sz, 2)])
    /\ UNCHANGED <<entry, hashVars, threadVars>>

\* Packed hash_buf(uint8_t *buf, int offset, int sz): the call for h1, the
\* call for h2, or a zero_hash call of unpack(h1) or unpack(h2)
THashBuf ==
    /\ top.fn = "hash_buf"
    /\ IF top.sz = WORD_SIZE
       THEN Return
       ELSE \/ Call([top EXCEPT !.sz = CDiv(top.sz, 2)])
            \/ Call([top EXCEPT !.offset = top.offset + CDiv(top.sz, 2),
                                !.sz = CDiv(top.sz, 2)])
            \/ /\ top.sz >= 4 * WORD_SIZE
               /\ \E s \in Halvings(CDiv(top.sz, 4)) :
                     Call([top EXCEPT !.fn = "zero_hash", !.sz = s])
    /\ UNCHANGED <<entry, hashVars, threadVars>>

\* Packed hash_node(Buffer *buf, int offset, int len, int sz): hash_aux of
\* the child, the call for h1, the call for h2, or a zero_hash call of
\* unpack(h1) or unpack(h2)
THashNode ==
    /\ top.fn = "hash_node"
    /\ IF top.len = 1
       THEN \E mat \in BOOLEAN :
               Call(Frame("hash_aux", top.level - 1, mat, 0, 0, 0))
       ELSE \/ Call([top EXCEPT !.len = CDiv(top.len, 2), !.sz = CDiv(top.sz, 2)])
            \/ Call([top EXCEPT !.offset = top.offset + CDiv(top.len, 2),
                                !.len = CDiv(top.len, 2), !.sz = CDiv(top.sz, 2)])
            \/ /\ top.sz >= 4 * WORD_SIZE
               /\ \E s \in Halvings(CDiv(top.sz, 4)) :
                     Call([top EXCEPT !.fn = "zero_hash", !.sz = s])
    /\ UNCHANGED <<entry, hashVars, threadVars>>

NextTerm ==
    TBufferHash \/ THashAux \/ TZeroPacked \/ TZeroHash \/ THashBuf \/ THashNode

SpecTerm == InitTerm /\ [][NextTerm]_vars

(***************************************************************************)
(* The goroutine started by startConfirmThread, and the rest of the        *)
(* program acting on the chain: cancelling the context, and writing        *)
(* chain.atHead under the write lock.                                      *)
(***************************************************************************)
InitThread ==
    /\ HashIdle
    /\ TermIdle
    /\ pc = "select"
    /\ readers = 0
    /\ writer = FALSE
    /\ atHead \in BOOLEAN
    /\ ctxDone = FALSE
    /\ ticks = 0
    /\ listeners \in 0..MaxListeners
    /\ observed = FALSE
    /\ confValid = FALSE
    /\ confInvalid = FALSE
    /\ idx = 0
    /\ nRLock = 0
    /\ nRUnlock = 0

\* case <-ctx.Done(): return
CtxDone ==
    /\ pc = "select"
    /\ ctxDone
    /\ pc' = "returned"
    /\ UNCHANGED <<readers, writer, atHead, ctxDone, ticks, listeners, observed,
                   confValid, confInvalid, idx, nRLock, nRUnlock, hashVars, termVars>>

\* case <-ticker.C:
Tick ==
    /\ pc = "select"
    /\ ticks < MaxTicks
    /\ ticks' = ticks + 1
    /\ pc' = "rlock"
    /\ UNCHANGED <<readers, writer, atHead, ctxDone, listeners, observed,
                   confValid, confInvalid, idx, nRLock, nRUnlock, hashVars, termVars>>

\* chain.RLock(): waits while a writer holds the lock
RLock ==
    /\ pc = "rlock"
    /\ ~writer
    /\ readers' = readers + 1
    /\ nRLock' = nRLock + 1
    /\ pc' = "check"
    /\ UNCHANGED <<writer, atHead, ctxDone, ticks, listeners, observed,
                   confValid, confInvalid, idx, nRUnlock, hashVars, termVars>>

\* a variant of NotAtHead that leaves the select without chain.RUnlock()
NotAtHead_NoUnlock ==
    /\ pc = "check"
    /\ ~atHead
    /\ observed' = FALSE
    /\ pc' = "select"
    /\ UNCHANGED <<readers, writer, atHead, ctxDone, ticks, listeners,
                   confValid, confInvalid, idx, nRLock, nRUnlock, hashVars, termVars>>

\* if !chain.atHead { chain.RUnlock(); break }
NotAtHead ==
    /\ pc = "check"
    /\ ~atHead
    /\ observed' = FALSE
    /\ readers' = readers - 1
    /\ nRUnlock' = nRUnlock + 1
    /\ pc' = "select"
    /\ UNCHANGED <<writer, atHead, ctxDone, ticks, listeners,
                   confValid, confInvalid, idx, nRLock, hashVars, termVars>>

\* confValid, confInvalid := chain.nodeGraph.generateNextConfProof(...)
GenerateNextConfProof ==
    /\ pc = "check"
    /\ atHead
    /\ observed' = TRUE
    /\ confValid' \in BOOLEAN
    /\ confInvalid' \in BOOLEAN
    /\ idx' = 0
    /\ pc' = "valid"
    /\ UNCHANGED <<readers, writer, atHead, ctxDone, ticks, listeners,
                   nRLock, nRUnlock, hashVars, termVars>>

\* listener.ValidNodeConfirmable(ctx, chain, confValid): the call
ValidNodeConfirmable ==
    /\ pc = "valid"
    /\ confValid
    /\ idx < listeners
    /\ pc' = "valid_cb"
    /\ UNCHANGED <<readers, writer, atHead, ctxDone, ticks, listeners, observed,
                   confValid, confInvalid, idx, nRLock, nRUnlock, hashVars, termVars>>

\* listener.ValidNodeConfirmable returns; the range loop moves on
ValidReturn ==
    /\ pc = "valid_cb"
    /\ idx' = idx + 1
    /\ pc' = "valid"
    /\ UNCHANGED <<readers, writer, atHead, ctxDone, ticks, listeners, observed,
                   confValid, confInvalid, nRLock, nRUnlock, hashVars, termVars>>

\* confValid == nil, or the range over chain.listeners is exhausted
ValidDone ==
    /\ pc = "valid"
    /\ ~confValid \/ idx = listeners
    /\ idx' = 0
    /\ pc' = "invalid"
    /\ UNCHANGED <<readers, writer, atHead, ctxDone, ticks, listeners, observed,
                   confValid, confInvalid, nRLock, nRUnlock, hashVars, termVars>>

\* listener.InvalidNodeConfirmable(ctx, chain, confInvalid): the call
InvalidNodeConfirmable ==
    /\ pc = "invalid"
    /\ confInvalid
    /\ idx < listeners
    /\ pc' = "invalid_cb"
    /\ UNCHANGED <<readers, writer, atHead, ctxDone, ticks, listeners, observed,
                   confValid, confInvalid, idx, nRLock, nRUnlock, hashVars, termVars>>

\* listener.InvalidNodeConfirmable returns; the range loop moves on
InvalidReturn ==
    /\ pc = "invalid_cb"
    /\ idx' = idx + 1
    /\ pc' = "invalid"
    /\ UNCHANGED <<readers, writer, atHead, ctxDone, ticks, listeners, observed,
                   confValid, confInvalid, nRLock, nRUnlock, hashVars, termVars>>

\* confInvalid == nil, or the range is exhausted: chain.RUnlock()
RUnlock ==
    /\ pc = "invalid"
    /\ ~confInvalid \/ idx = listeners
    /\ readers' = readers - 1
    /\ nRUnlock' = nRUnlock + 1
    /\ observed' = FALSE
    /\ idx' = 0
    /\ pc' = "select"
    /\ UNCHANGED <<writer, atHead, ctxDone, ticks, listeners,
                   confValid, confInvalid, nRLock, hashVars, termVars>>

\* the context is cancelled
Cancel ==
    /\ ~ctxDone
    /\ ctxDone' = TRUE
    /\ UNCHANGED <<pc, readers, writer, atHead, ticks, listeners, observed,
                   confValid, confInvalid, idx, nRLock, nRUnlock, hashVars, termVars>>

\* chain.Lock() by another goroutine: waits for the readers to leave
WLock ==
    /\ ~writer
    /\ readers = 0
    /\ writer' = TRUE
    /\ UNCHANGED <<pc, readers, atHead, ctxDone, ticks, listeners, observed,
                   confValid, confInvalid, idx, nRLock, nRUnlock, hashVars, termVars>>

\* chain.atHead is written under the write lock
SetAtHead ==
    /\ writer
    /\ atHead' = ~atHead
    /\ UNCHANGED <<pc, readers, writer, ctxDone, ticks, listeners, observed,
                   confValid, confInvalid, idx, nRLock, nRUnlock, hashVars, termVars>>

\* chain.Unlock() by the writer
WUnlock ==
    /\ writer
    /\ writer' = FALSE
    /\ UNCHANGED <<pc, readers, atHead, ctxDone, ticks, listeners, observed,
                   confValid, confInvalid, idx, nRLock, nRUnlock, hashVars, termVars>>

NextThread ==
    \/ CtxDone \/ Tick \/ RLock \/ NotAtHead \/ GenerateNextConfProof
    \/ ValidNodeConfirmable \/ ValidReturn \/ ValidDone
    \/ InvalidNodeConfirmable \/ InvalidReturn \/ RUnlock
    \/ Cancel \/ WLock \/ SetAtHead \/ WUnlock

SpecThread == InitThread /\ [][NextThread]_vars

(***************************************************************************)
(* Definitions used to state the properties.                               *)
(***************************************************************************)
\* the calls that return a Packed value
PackedOps == {"hash_aux", "hash_buf", "hash_node", "zero_packed"}

IsMaterialized(b) == IF b.level = 0 THEN b.leaf # NULL ELSE b.node # NULL

\* the Buffer is logically all zero: every leaf below it is Empty or holds zero bytes only
RECURSIVE AllZero(_)
AllZero(b) ==
    IF b.level = 0
    THEN b.leaf = NULL \/ \A i \in 1..LEAF_SIZE : b.leaf[i] = 0
    ELSE b.node = NULL \/ \A i \in 1..NODE_SIZE : AllZero(b.node[i])

\* zeroHash(sz * 2^k), by doubling k times from zeroHash(sz)
RECURSIVE zero_hash_doubled(_, _)
zero_hash_doubled(sz, k) ==
    IF k = 0 THEN zero_hash(sz)
    ELSE LET h == zero_hash_doubled(sz, k - 1) IN hash2(h, h)

\* the recursions with every compress(h1) replaced by
\* wrap(combine(expand(h1), zeroHash(size)), size * 2)
RECURSIVE nc_zero_packed(_)
nc_zero_packed(sz) ==
    IF sz = WORD_SIZE THEN normal(zero_hash(WORD_SIZE), WORD_SIZE)
    ELSE LET h1 == nc_zero_packed(CDiv(sz, 2))
         IN normal(hash2(h1.hash, zero_hash(h1.size)), MulWrap(h1.size, 2))

RECURSIVE nc_hash_buf(_, _, _)
nc_hash_buf(b, offset, sz) ==
    IF sz = WORD_SIZE
    THEN normal(keccak256(SubSeq(b, offset + 1, offset + WORD_SIZE)), WORD_SIZE)
    ELSE LET h1 == nc_hash_buf(b, offset, CDiv(sz, 2))
             h2 == nc_hash_buf(b, offset + CDiv(sz, 2), CDiv(sz, 2))
         IN IF h2.hash = hash1(0)
            THEN normal(hash2(h1.hash, zero_hash(h1.size)), MulWrap(h1.size, 2))
            ELSE normal(hash2(h1.hash, h2.hash), sz)

RECURSIVE nc_hash_node(_, _, _, _)
RECURSIVE nc_hash_aux(_)

nc_hash_node(b, offset, len, sz) ==
    IF len = 1
    THEN nc_hash_aux(b[1])
    ELSE LET h1 == nc_hash_node(b, offset, CDiv(len, 2), CDiv(sz, 2))
             h2 == nc_hash_node(b, offset + CDiv(len, 2), CDiv(len, 2), CDiv(sz, 2))
         IN IF h2.hash = hash1(0)
            THEN normal(hash2(h1.hash, zero_hash(h1.size)), MulWrap(h1.size, 2))
            ELSE normal(hash2(h1.hash, h2.hash), sz)

nc_hash_aux(b) ==
    IF b.level = 0
    THEN IF b.leaf = NULL THEN nc_zero_packed(LEAF_SIZE)
         ELSE nc_hash_buf(b.leaf, 0, LEAF_SIZE)
    ELSE IF b.leaf = NULL THEN nc_zero_packed(calc_len(b.level))
         ELSE nc_hash_node(b.node, 0, NODE_SIZE, calc_len(b.level))

\* the plain binary Merkle root over the 32-byte blocks of bytes [offset, offset + sz)
RECURSIVE merkle_root(_, _, _)
merkle_root(b, offset, sz) ==
    IF sz = WORD_SIZE THEN keccak256(SubSeq(b, offset + 1, offset + WORD_SIZE))
    ELSE hash2(merkle_root(b, offset, sz \div 2), merkle_root(b, offset + sz \div 2, sz \div 2))

\* the never-compressing counterpart of the call recorded in the state
NeverCompressed ==
    CASE op = "hash_aux" -> nc_hash_aux(buf)
      [] op = "hash_buf" -> nc_hash_buf(buf.leaf, args[1], args[3])
      [] op = "hash_node" -> nc_hash_node(buf.node, args[1], args[2], args[3])
      [] op = "zero_packed" -> nc_zero_packed(args[3])

\* the splits [offset, offset + sz) at which hash_buf takes the combine branch
RECURSIVE combine_splits(_, _, _)
combine_splits(b, offset, sz) ==
    IF sz = WORD_SIZE THEN {}
    ELSE LET below == combine_splits(b, offset, sz \div 2)
                        \cup combine_splits(b, offset + sz \div 2, sz \div 2)
         IN IF is_zero_hash(hash_buf(b, offset + sz \div 2, sz \div 2))
            THEN below ELSE below \cup {<<offset, sz>>}

\* the number of splits of hash_buf over sz bytes
RECURSIVE split_count(_)
split_count(sz) == IF sz = WORD_SIZE THEN 0 ELSE 1 + 2 * split_count(sz \div 2)

\* extent(level) in 32-byte words: 32 * 128^level
RECURSIVE ExtentWords(_)
ExtentWords(L) ==
    IF L = 0 THEN LEAF_SIZE \div WORD_SIZE ELSE NODE_SIZE * ExtentWords(L - 1)

\* the size, in 32-byte words, of the region the recorded call stands for
RegionWords ==
    CASE op = "hash_aux" -> ExtentWords(buf.level)
      [] op = "hash_buf" -> args[3] \div WORD_SIZE
      [] op = "hash_node" -> args[2] * ExtentWords(buf.level - 1)
      [] op = "zero_packed" -> args[3] \div WORD_SIZE

RECURSIVE IsPow2(_)
IsPow2(n) == IF n = 1 THEN TRUE ELSE IF n < 1 \/ n % 2 = 1 THEN FALSE ELSE IsPow2(n \div 2)

(***************************************************************************)
(* C1: Buffer::hash returns expand(rootPacked(b)) for every well-formed    *)
(* Buffer, and zeroHash(1024) for the Empty level-0 Buffer.                *)
(***************************************************************************)
C1_CommitmentIsExpandedRoot ==
    op = "hash" =>
        /\ out = unpack(hash_aux(buf))
        /\ (buf = Empty(0) => out = zero_hash(LEAF_SIZE))

(***************************************************************************)
(* C2: the root Packed value of a Materialized Buffer of level > 0 is      *)
(* hash_node over its 128 children; a Materialized level-1 Buffer with a   *)
(* non-zero byte does not get the root of the Empty level-1 Buffer.        *)
(***************************************************************************)
C2_MaterializedNodeUsesHashNode ==
    (op = "hash_aux" /\ buf.level > 0 /\ buf.node # NULL) =>
        /\ out = hash_node(buf.node, 0, NODE_SIZE, calc_len(buf.level))
        /\ (buf.level = 1 /\ ~AllZero(buf) => out # hash_aux(Empty(1)))

(***************************************************************************)
(* C3: zero-region equivalence: the commitment of a Materialized Buffer    *)
(* that is logically all zero equals the commitment of the Empty Buffer of *)
(* the same level.                                                         *)
(***************************************************************************)
C3_ZeroRegionEquivalence ==
    (op = "hash" /\ IsMaterialized(buf) /\ AllZero(buf)) => out = hash(Empty(buf.level))

C3_Witness ==
    /\ op = "hash"
    /\ buf.level = 0
    /\ buf.leaf # NULL
    /\ AllZero(buf)

C5_ZeroTestSoundness ==
    op \in PackedOps =>
        /\ is_zero_hash(out) <=> (unpack(out) = zero_hash_doubled(out.size, out.packed))
        /\ (is_zero_hash(out) => out.size = WORD_SIZE)

C5_Witness ==
    /\ op = "hash_buf"
    /\ args[3] = LEAF_SIZE
    /\ is_zero_hash(out)
    /\ out.packed > 0

(***************************************************************************)
(* C6 (as stated): on the leaf that is zero except byte 0 = 0x01, hash_buf *)
(* compresses at every split except the one containing offset 0, and the   *)
(* expansion is the digest of the first block combined with four zero      *)
(* hashes of doubling sizes.                                               *)
(***************************************************************************)
C6_Scenario == op = "hash_buf" /\ args = <<0, 0, LEAF_SIZE>> /\ buf.leaf = OneByteLeaf

FirstBlockDigest == keccak256(SubSeq(OneByteLeaf, 1, WORD_SIZE))

C6_Original ==
    C6_Scenario =>
        /\ Cardinality(combine_splits(buf.leaf, 0, LEAF_SIZE)) = 1
        /\ unpack(out) =
              hash2(hash2(hash2(hash2(FirstBlockDigest, zero_hash(32)), zero_hash(64)),
                          zero_hash(128)), zero_hash(256))

(***************************************************************************)
(* C6 (amended): hash_buf compresses at every one of the 31 splits, the    *)
(* result is the first block's digest with base size 32 and 5 doublings,   *)
(* and its expansion combines that digest with the five zero hashes of     *)
(* sizes 32, 64, 128, 256 and 512.                                         *)
(***************************************************************************)
C6_EndToEnd ==
    C6_Scenario =>
        /\ combine_splits(buf.leaf, 0, LEAF_SIZE) = {}
        /\ split_count(LEAF_SIZE) = 31
        /\ out = [hash |-> FirstBlockDigest, size |-> 32, packed |-> 5]
        /\ unpack(out) =
              hash2(hash2(hash2(hash2(hash2(FirstBlockDigest, zero_hash(32)), zero_hash(64)),
                                zero_hash(128)), zero_hash(256)), zero_hash(512))

C6_Witness == C6_Scenario /\ out.hash # hash1(0)

(***************************************************************************)
(* C8: hash_node over one child returns the root of the child at position  *)
(* offset, so two arrays that differ in the content of one child k in      *)
(* 1..127 get different roots.                                             *)
(***************************************************************************)
C8_HashNodeReadsChildAtOffset ==
    op = "hash_node" =>
        /\ (args[2] = 1 => out = hash_aux(buf.node[args[1] + 1]))
        /\ (args[2] = NODE_SIZE /\ buf.level = 1 =>
              \A k \in ProbeIdx \ {0} : \A kid \in KidChoices(1) :
                 unpack(hash_aux(kid)) # unpack(hash_aux(buf.node[k + 1])) =>
                    hash_node([buf.node EXCEPT ![k + 1] = kid], 0, NODE_SIZE, args[3]) # out)

(***************************************************************************)
(* C9 (as stated): every Packed value has a base size that is a power of   *)
(* two in [32, 1024], doublings >= 0, and base size * 2^doublings equal to *)
(* the size of the region it stands for.                                   *)
(***************************************************************************)
C9_Original ==
    op \in PackedOps =>
        /\ IsPow2(out.size) /\ out.size >= WORD_SIZE /\ out.size <= LEAF_SIZE
        /\ out.packed >= 0
        /\ (out.size \div WORD_SIZE) * 2 ^ out.packed = RegionWords

(***************************************************************************)
(* C9 (amended): every Packed value has a base size that is a power of two *)
(* of at least 32 and at most the size of its region (at most 1024 when    *)
(* returned by hash_buf or zero_packed), doublings >= 0, and base size *   *)
(* 2^doublings equal to the size of the region it stands for.              *)
(***************************************************************************)
C9_WellFormedPacked ==
    op \in PackedOps =>
        /\ IsPow2(out.size) /\ out.size >= WORD_SIZE
        /\ out.size \div WORD_SIZE <= RegionWords
        /\ (op \in {"hash_buf", "zero_packed"} => out.size <= LEAF_SIZE)
        /\ out.packed >= 0
        /\ (out.size \div WORD_SIZE) * 2 ^ out.packed = RegionWords

C9_Witness ==
    /\ op = "hash_node"
    /\ args[2] = NODE_SIZE
    /\ out.size > LEAF_SIZE

(***************************************************************************)
(* C7: Buffer::hash terminates for every well-formed Buffer of every       *)
(* level: no recursion of zero_hash, zero_packed, hash_buf or hash_node    *)
(* descends without reaching its base case, which would overflow the       *)
(* stack.                                                                  *)
(***************************************************************************)
C7_CommitmentTerminates == entry = "hash" => top.fn # "stack_overflow"

(***************************************************************************)
(* C10: lock discipline of the confirm thread: every RLock is followed by  *)
(* exactly one RUnlock before the goroutine blocks in select again or      *)
(* returns, the read lock is not held there, and a listener callback runs  *)
(* only with the read lock held after atHead was observed true.            *)
(***************************************************************************)
C10_LockDiscipline ==
    /\ readers = nRLock - nRUnlock
    /\ nRUnlock <= nRLock /\ nRLock <= nRUnlock + 1
    /\ pc \in {"select", "returned"} => (readers = 0 /\ nRLock = ticks /\ nRUnlock = ticks)
    /\ pc \in {"valid_cb", "invalid_cb"} => (readers = 1 /\ observed /\ atHead)

C10_Witness ==
    /\ pc = "invalid_cb"
    /\ nRLock = 2
    /\ nRUnlock = 1
====
